---- MODULE Spec2Model ----
(***************************************************************************)
(* A model of the A2A tool bridge of the order audit agent                 *)
(* (src/patterns/order-audit-agent/order_audit_agent.py): the lazily       *)
(* initialised OrderAgentA2ATool, its four capabilities, the JSON-RPC      *)
(* response extraction and the endpoint resolution.                        *)
(*                                                                         *)
(* Representation.  A Python str is a sequence of one-character strings.   *)
(* None is the reserved sequence <<"<None>">>.  Other Python / JSON values *)
(* are tagged records [t |-> type, v |-> payload].  A text built by an     *)
(* f-string is a sequence of segments: literals and interpolated values.   *)
(***************************************************************************)
EXTENDS Naturals, Integers, Sequences, FiniteSets, TLC

(***************************************************************************)
(* Bounds of the model.                                                    *)
(***************************************************************************)
MaxCalls == 2      \* capability calls made over one run
UuidHi == 2        \* distinct values of the first 8 hex characters of a uuid
MaxLines == 3      \* lines of a raw response text (SpecParse)
MaxTokens == 3     \* tokens an endpoint string is concatenated from (SpecUrl)

(***************************************************************************)
(* Python strings.                                                         *)
(***************************************************************************)
None == <<"<None>">>
EMPTY == <<>>

\* Python truthiness of an optional str: None and "" are falsy.
Falsy(s) == s = None \/ s = EMPTY

IsSpace(c) == c \in {" ", "\t", "\n"}

RECURSIVE lstrip(_)
lstrip(s) == IF s # EMPTY /\ IsSpace(Head(s)) THEN lstrip(Tail(s)) ELSE s

RECURSIVE rstrip(_)
rstrip(s) ==
    IF s # EMPTY /\ IsSpace(s[Len(s)]) THEN rstrip(SubSeq(s, 1, Len(s) - 1)) ELSE s

\* str.strip()
strip(s) == rstrip(lstrip(s))

\* str.rstrip(ch) for a single character ch
RECURSIVE rstrip_char(_, _)
rstrip_char(s, ch) ==
    IF s # EMPTY /\ s[Len(s)] = ch THEN rstrip_char(SubSeq(s, 1, Len(s) - 1), ch) ELSE s

\* str.startswith(p)
startswith(s, p) == Len(s) >= Len(p) /\ SubSeq(s, 1, Len(p)) = p

\* str.find(sub): 1-based index of the first occurrence of sub in s, 0 if none
find(s, sub) ==
    LET hits == {i \in 1..(Len(s) + 1) :
                    i + Len(sub) - 1 <= Len(s) /\ SubSeq(s, i, i + Len(sub) - 1) = sub}
    IN  IF hits = {} THEN 0 ELSE CHOOSE i \in hits : \A j \in hits : i <= j

\* `sub in s`
contains(s, sub) == find(s, sub) # 0

\* s.split(sub, 1)[0]: the text before the first occurrence, all of s if none
split_before(s, sub) ==
    IF contains(s, sub) THEN SubSeq(s, 1, find(s, sub) - 1) ELSE s

\* s.split(sub, 1)[1]: the text after the first occurrence (sub occurs in s)
split_after(s, sub) == SubSeq(s, find(s, sub) + Len(sub), Len(s))

HexDigits == {"0", "1", "2", "3", "4", "5", "6", "7", "8", "9",
              "A", "B", "C", "D", "E", "F", "a", "b", "c", "d", "e", "f"}

\* The character a percent-escape stands for (the escapes of the modelled alphabet;
\* any other byte is shown as the replacement character).
PercentDecode(h1, h2) ==
    CASE <<h1, h2>> \in {<<"3", "A">>, <<"3", "a">>} -> ":"
      [] <<h1, h2>> \in {<<"2", "F">>, <<"2", "f">>} -> "/"
      [] <<h1, h2>> = <<"2", "0">> -> " "
      [] <<h1, h2>> = <<"2", "5">> -> "%"
      [] <<h1, h2>> \in {<<"3", "F">>, <<"3", "f">>} -> "?"
      [] OTHER -> "\\uFFFD"

\* urllib.parse.unquote: %XX with two hex digits is decoded, anything else is kept
RECURSIVE unquote(_)
unquote(s) ==
    IF s = EMPTY THEN EMPTY
    ELSE IF Head(s) = "%" /\ Len(s) >= 3 /\ s[2] \in HexDigits /\ s[3] \in HexDigits
         THEN <<PercentDecode(s[2], s[3])>> \o unquote(SubSeq(s, 4, Len(s)))
         ELSE <<Head(s)>> \o unquote(Tail(s))

(***************************************************************************)
(* Fixed strings of the source.                                            *)
(***************************************************************************)
ARN_PREFIX == <<"a", "r", "n", ":", "a", "w", "s", ":", "b", "e", "d", "r", "o", "c",
                "k", "-", "a", "g", "e", "n", "t", "c", "o", "r", "e", ":">>
RUNTIMES_MARKER == <<"/", "r", "u", "n", "t", "i", "m", "e", "s", "/">>
INVOCATIONS == <<"/", "i", "n", "v", "o", "c", "a", "t", "i", "o", "n", "s">>

\* A variant that returns the identifier segment as it stands in the URL.
_extract_runtime_arn_from_agent_url_undecoded(agent_url) ==
    LET url == strip(IF Falsy(agent_url) THEN EMPTY ELSE agent_url) IN
    IF url = EMPTY THEN None
    ELSE IF startswith(url, ARN_PREFIX) THEN url
    ELSE IF ~contains(url, RUNTIMES_MARKER) THEN None
    ELSE LET rest == split_after(url, RUNTIMES_MARKER)
             encoded == split_before(rest, INVOCATIONS)
         IN  IF encoded = EMPTY THEN None ELSE encoded

\* OrderAgentA2ATool._extract_runtime_arn_from_agent_url
_extract_runtime_arn_from_agent_url(agent_url) ==
    LET url == strip(IF Falsy(agent_url) THEN EMPTY ELSE agent_url) IN
    IF url = EMPTY THEN None
    ELSE IF startswith(url, ARN_PREFIX) THEN url
    ELSE IF ~contains(url, RUNTIMES_MARKER) THEN None
    ELSE LET rest == split_after(url, RUNTIMES_MARKER)
             encoded == split_before(rest, INVOCATIONS)
         IN  IF encoded = EMPTY THEN None ELSE unquote(encoded)

\* A variant that appends the suffix without looking for it.
_normalize_agentcore_a2a_base_url_always_appending(url) ==
    LET n1 == strip(IF Falsy(url) THEN EMPTY ELSE url)
        n2 == split_before(n1, <<"?">>)
        n3 == rstrip_char(n2, "/")
    IN  n3 \o INVOCATIONS

\* create_order_agent_a2a_tool._normalize_agentcore_a2a_base_url
_normalize_agentcore_a2a_base_url(url) ==
    LET n1 == strip(IF Falsy(url) THEN EMPTY ELSE url)
        n2 == split_before(n1, <<"?">>)
        n3 == rstrip_char(n2, "/")
    IN  IF contains(n3, INVOCATIONS)
        THEN split_before(n3, INVOCATIONS) \o INVOCATIONS
        ELSE n3 \o INVOCATIONS

(***************************************************************************)
(* Python / JSON values: tagged records.                                   *)
(***************************************************************************)
PyNone == [t |-> "none", v |-> <<>>]
PyInt(n) == [t |-> "int", v |-> n]
PyBool(b) == [t |-> "bool", v |-> b]
PyFloat(whole, frac) == [t |-> "float", v |-> <<whole, frac>>]
PyStr(s) == [t |-> "str", v |-> s]
PyList(xs) == [t |-> "list", v |-> xs]
PyDict(f) == [t |-> "dict", v |-> f]
\* what json.loads raises on
NotJson == [t |-> "invalid", v |-> <<>>]

\* isinstance(x, int): bool is a subclass of int
IsInt(x) == x.t \in {"int", "bool"}
IntValue(x) == IF x.t = "bool" THEN (IF x.v THEN 1 ELSE 0) ELSE x.v
IsDict(x) == x.t = "dict"
IsList(x) == x.t = "list"
IsStr(x) == x.t = "str"
\* `key in d` and d.get(key) for a dict d
HasKey(d, key) == key \in DOMAIN d.v
Get(d, key) == IF HasKey(d, key) THEN d.v[key] ELSE PyNone
\* bool(x) for the values that occur as `items`
Truthy(x) ==
    CASE x.t = "none" -> FALSE
      [] x.t \in {"list", "str"} -> x.v # <<>>
      [] x.t = "dict" -> DOMAIN x.v # {}
      [] x.t \in {"int", "bool"} -> IntValue(x) # 0
      [] OTHER -> TRUE

(***************************************************************************)
(* Texts built by f-strings: sequences of segments.                        *)
(***************************************************************************)
Lit(s) == [k |-> "lit", s |-> s, v |-> <<>>]        \* literal text of the source
Val(v) == [k |-> "val", s |-> "", v |-> v]          \* an interpolated str
Idx(n) == [k |-> "idx", s |-> "", v |-> n]          \* an interpolated int
ExcText(s) == [k |-> "exc", s |-> s, v |-> <<>>]    \* str(e) of a caught exception
Json(x) == [k |-> "json", s |-> "", v |-> x]        \* json.dumps(x)
PartText(s) == [k |-> "text", s |-> "", v |-> s]    \* the text of parts[0]
RawText(ls) == [k |-> "raw", s |-> "", v |-> ls]    \* a raw response text (its lines)

(***************************************************************************)
(* Responses of the peer.  A raw response text is the sequence of its      *)
(* lines (str.splitlines); a line records whether it is blank after strip  *)
(* and what json.loads makes of it.                                        *)
(***************************************************************************)
Line(name, blank, json) == [name |-> name, blank |-> blank, json |-> json]

TextPart(s) == PyDict([kind |-> PyStr(<<"t", "e", "x", "t">>), text |-> PyStr(s)])
ResultWith(artifacts) == PyDict([id |-> PyInt(1), result |-> PyDict([artifacts |-> artifacts])])
ArtifactWith(parts) == PyDict([parts |-> parts])

L_blank == Line("blank", TRUE, NotJson)
L_garbage == Line("garbage", FALSE, NotJson)
L_array == Line("json-array", FALSE, PyList(<<PyInt(1)>>))
L_error == Line("error-object", FALSE, PyDict([id |-> PyInt(1), error |-> PyDict([code |-> PyInt(1)])]))
L_result_str == Line("result-is-str", FALSE, PyDict([result |-> PyStr(<<"o", "k">>)]))
L_no_artifacts == Line("result-without-artifacts", FALSE, PyDict([result |-> PyDict([status |-> PyInt(1)])]))
L_artifacts_empty == Line("artifacts-empty", FALSE, ResultWith(PyList(<<>>)))
L_artifact_not_dict == Line("artifact-not-dict", FALSE, ResultWith(PyList(<<PyStr(<<"a">>)>>)))
L_parts_empty == Line("parts-empty", FALSE, ResultWith(PyList(<<ArtifactWith(PyList(<<>>))>>)))
L_part_not_dict == Line("part-not-dict", FALSE, ResultWith(PyList(<<ArtifactWith(PyList(<<PyInt(1)>>))>>)))
L_text_not_str == Line("text-not-str", FALSE,
    ResultWith(PyList(<<ArtifactWith(PyList(<<PyDict([kind |-> PyStr(<<"t">>), text |-> PyInt(5)])>>))>>)))
L_text_second == Line("text-in-second-artifact", FALSE,
    ResultWith(PyList(<<ArtifactWith(PyList(<<>>)), ArtifactWith(PyList(<<TextPart(<<"Z">>)>>))>>)))
L_text_X == Line("text-X", FALSE, ResultWith(PyList(<<ArtifactWith(PyList(<<TextPart(<<"X">>)>>))>>)))
L_text_Y == Line("text-Y", FALSE,
    ResultWith(PyList(<<ArtifactWith(PyList(<<TextPart(<<"Y">>), TextPart(<<"W">>)>>))>>)))
L_text_empty == Line("text-empty", FALSE, ResultWith(PyList(<<ArtifactWith(PyList(<<TextPart(EMPTY)>>))>>)))

\* json.loads(line.strip())
json_loads(line) == line.json

\* The body of the `for obj in reversed(candidates)` loop: the text the candidate
\* exposes at result.artifacts[0].parts[0].text, or None when the loop continues.
ArtifactText(obj) ==
    LET result == Get(obj, "result")
        artifacts == Get(result, "artifacts")
        parts == Get(artifacts.v[1], "parts")
    IN  IF ~IsDict(result) THEN None
        ELSE IF ~IsList(artifacts) \/ artifacts.v = <<>> THEN None
        ELSE IF ~IsDict(artifacts.v[1]) THEN None
        ELSE IF ~IsList(parts) \/ parts.v = <<>> THEN None
        ELSE IF IsDict(parts.v[1]) /\ IsStr(Get(parts.v[1], "text"))
             THEN Get(parts.v[1], "text").v
             ELSE None

\* The first loop: the parsed values of the lines that are non-blank, parse, and
\* are JSON objects, in input order.
Candidates(jsonrpc_text) ==
    LET kept == SelectSeq(jsonrpc_text, LAMBDA line : ~line.blank /\ IsDict(json_loads(line)))
    IN  [i \in 1..Len(kept) |-> json_loads(kept[i])]

\* A variant of the second loop that scans the candidates in input order.
RECURSIVE ScanFrom(_, _)
ScanFrom(candidates, i) ==
    IF i > Len(candidates) THEN None
    ELSE IF ArtifactText(candidates[i]) # None THEN ArtifactText(candidates[i])
    ELSE ScanFrom(candidates, i + 1)

ScanForward(candidates, n) == ScanFrom(candidates, 1)

\* The second loop, `for obj in reversed(candidates)`, from candidates[n] downwards.
RECURSIVE ScanReversed(_, _)
ScanReversed(candidates, n) ==
    IF n = 0 THEN None
    ELSE IF ArtifactText(candidates[n]) # None THEN ArtifactText(candidates[n])
    ELSE ScanReversed(candidates, n - 1)

\* A variant whose fallback returns the text without its blank lines.
_extract_first_artifact_text_dropping_blank_lines(jsonrpc_text) ==
    LET candidates == Candidates(jsonrpc_text)
        found == ScanReversed(candidates, Len(candidates))
    IN  IF found # None THEN PartText(found)
        ELSE RawText(SelectSeq(jsonrpc_text, LAMBDA line : ~line.blank))

\* OrderAgentA2ATool._extract_first_artifact_text
_extract_first_artifact_text(jsonrpc_text) ==
    LET candidates == Candidates(jsonrpc_text)
        found == ScanReversed(candidates, Len(candidates))
    IN  IF found # None THEN PartText(found) ELSE RawText(jsonrpc_text)

\* `if response_text:` -- a str is truthy unless it is empty
TextTruthy(response_text) == response_text.v # <<>>

(***************************************************************************)
(* Configuration and inputs.                                               *)
(***************************************************************************)
AGENT_NAME == <<"O", "r", "d", "e", "r", " ", "A", "g", "e", "n", "t">>

\* An endpoint given as a runtime URL: h/runtimes/a%3Ab/invocations?q
URL_RUNTIME == <<"h">> \o RUNTIMES_MARKER \o <<"a", "%", "3", "A", "b">> \o INVOCATIONS \o <<"?", "q">>
\* An endpoint without the /runtimes/ marker
URL_PLAIN == <<"h", "/", "a">>
\* An endpoint given as the stable identifier itself
URL_ARN == ARN_PREFIX \o <<"r", "1">>

\* The values ORDER_AGENT_URL takes (create_order_audit_agent builds the bridge only
\* for a non-empty one).
OrderAgentUrls == {URL_RUNTIME, URL_PLAIN, URL_ARN}

OVERRIDE_ARN == ARN_PREFIX \o <<"o", "v">>
STATE_MACHINE_ARN == <<"a", "r", "n", ":", "s", "m">>
APPROVER_EMAIL == <<"a", "@", "b">>

EnvNames == {"ORDER_AGENT_RUNTIME_ARN", "APPROVAL_STATE_MACHINE_ARN", "APPROVAL_APPROVER_EMAIL"}
\* The values os.environ.get can give for each name: unset, empty, set.
EnvValues(name) ==
    CASE name = "ORDER_AGENT_RUNTIME_ARN" -> {None, EMPTY, OVERRIDE_ARN}
      [] name = "APPROVAL_STATE_MACHINE_ARN" -> {None, EMPTY, STATE_MACHINE_ARN}
      [] name = "APPROVAL_APPROVER_EMAIL" -> {None, APPROVER_EMAIL}

P1 == <<"P", "1">>
P2 == <<"P", "2">>
\* str arguments the orchestrator passes (sku, order_id, supplier_id)
StrArgs == {EMPTY, <<" ">>, P1}

Item(sku, qty) == PyDict([sku |-> PyStr(sku), qty |-> qty])
\* `items` arguments the orchestrator passes
ItemsArgs == <<
    PyList(<<Item(P1, PyInt(100))>>),
    PyList(<<Item(P1, PyInt(2)), Item(P2, PyInt(0))>>),
    PyNone,
    PyList(<<>>),
    PyDict([sku |-> PyStr(P1), qty |-> PyInt(1)]),
    PyList(<<PyStr(P1)>>),
    PyList(<<PyDict([sku |-> PyStr(P1)])>>),
    PyList(<<PyDict([qty |-> PyInt(1)])>>),
    PyList(<<Item(P1, PyFloat(1, 5))>>),
    PyList(<<Item(P1, PyStr(<<"1">>))>>),
    PyList(<<Item(P1, PyInt(-1))>>),
    PyList(<<Item(P1, PyInt(2)), Item(P2, PyInt(1))>>)
>>

\* What one invoke_agent_runtime call can come to: it raises, the response has no
\* body, reading the body raises, or the body is read and decoded.
TransportOutcomes == <<
    [kind |-> "body", raw |-> <<L_text_X>>],
    [kind |-> "body", raw |-> <<L_artifacts_empty>>],
    [kind |-> "invoke-raises", raw |-> <<>>],
    [kind |-> "body", raw |-> <<>>],
    [kind |-> "body", raw |-> <<L_text_empty>>],
    [kind |-> "body-missing", raw |-> <<>>],
    [kind |-> "read-raises", raw |-> <<>>],
    [kind |-> "body", raw |-> <<L_garbage, L_text_Y, L_error>>]
>>

\* The lines a raw response text is made of (SpecParse).
ResponseLines == <<
    L_blank, L_garbage, L_array, L_error, L_result_str, L_no_artifacts,
    L_artifacts_empty, L_artifact_not_dict, L_parts_empty, L_part_not_dict,
    L_text_not_str, L_text_second, L_text_X, L_text_Y, L_text_empty
>>

\* uuid4().hex[:8] of a value uuid4() returns: any of these; the 8 characters do not
\* determine the value, so distinct values can have the same ones.
Hex8Values == {ToString(h) : h \in 0..(UuidHi - 1)}

Tasks == {"t1", "t2"}

(***************************************************************************)
(* State.                                                                  *)
(***************************************************************************)
VARIABLES
    env,          \* os.environ: the three names the bridge reads
    bridge,       \* the OrderAgentA2ATool instance
    boto,         \* what boto3 was asked for: clients created, identifiers resolved
    invocations,  \* the invoke_agent_runtime calls issued, in order
    executions,   \* the start_execution requests issued, in order
    uuids,        \* the number of values uuid4() has returned
    call,         \* per task: the capability call it is in or has finished
    ncalls,       \* capability calls made so far
    jsonrpc_text, \* SpecParse: the raw response text given to the extraction
    extracted,    \* SpecParse: what the extraction returned
    endpoint,     \* SpecUrl: the endpoint string (ORDER_AGENT_URL)
    resolution,   \* SpecUrl: what normalisation and resolution make of it
    TEMP_BUCKET,  \* SpecPresign: the module-level TEMP_BUCKET of the presigned-URL Lambda
    s3_objects,   \* SpecPresign: the put_object calls that stored an object, in order
    event,        \* SpecPresign: the event the handler was last invoked with
    response      \* SpecPresign: what that invocation came to

vars == <<env, bridge, boto, invocations, executions, uuids, call, ncalls,
          jsonrpc_text, extracted, endpoint, resolution,
          TEMP_BUCKET, s3_objects, event, response>>
presign_vars == <<TEMP_BUCKET, s3_objects, event, response>>
\* the variables of the specifications of the pure functions and of the Lambda
parse_vars == <<jsonrpc_text, extracted, endpoint, resolution, presign_vars>>

NoCall ==
    [pc |-> "idle", op |-> "none", arg |-> EMPTY, items |-> PyNone, note |-> EMPTY,
     outcome |-> "none", result |-> <<>>, exc |-> "", envelope |-> <<>>,
     response |-> [kind |-> "none", raw |-> <<>>],
     sent |-> 0, started |-> 0, clients |-> 0, first |-> FALSE]

\* OrderAgentA2ATool.__init__
OrderAgentA2ATool(agent_url) ==
    [agent_url |-> agent_url, agent_name |-> AGENT_NAME, _initialized |-> FALSE,
     _runtime_arn |-> None, _agentcore_client |-> None]

\* create_order_agent_a2a_tool
create_order_agent_a2a_tool(agent_url) ==
    OrderAgentA2ATool(_normalize_agentcore_a2a_base_url(agent_url))

NotExtracted == [k |-> "none", s |-> "", v |-> <<>>]
NoEvent == [httpMethod |-> "none"]
NoResponse == [raised |-> FALSE, statusCode |-> 0]
\* the presigned-URL Lambda before its first invocation
InitLambda(bucket) ==
    /\ TEMP_BUCKET = bucket
    /\ s3_objects = <<>>
    /\ event = NoEvent
    /\ response = NoResponse
NotResolved == [normalized |-> None, resolved |-> None, resolved_normalized |-> None,
                done |-> FALSE]

\* The state once create_order_audit_agent has built the bridge for ORDER_AGENT_URL
\* = url, with the environment `environ`.
InitWith(environ, url) ==
    /\ env = environ
    /\ bridge = create_order_agent_a2a_tool(url)
    /\ boto = [clients |-> 0, resolutions |-> 0, sfn_clients |-> 0]
    /\ invocations = <<>>
    /\ executions = <<>>
    /\ uuids = 0
    /\ call = [t \in Tasks |-> NoCall]
    /\ ncalls = 0
    /\ jsonrpc_text = <<>>
    /\ extracted = NotExtracted
    /\ endpoint = url
    /\ resolution = NotResolved
    /\ InitLambda(None)

(***************************************************************************)
(* OrderAgentA2ATool._ensure_initialized.  It has no await in it, so the   *)
(* event loop runs it to its end without another coroutine in between.     *)
(* boto_ok tells whether boto3.client returns a client or raises.  The     *)
(* result is the instance after the call and the exception raised ("" when *)
(* it returns).                                                            *)
(***************************************************************************)
NewClient == <<"bedrock-agentcore client", ToString(boto.clients + 1)>>

\* Variants of _ensure_initialized with a plausible slip each.
\* (1) the early return on self._initialized is missing
_ensure_initialized_without_guard(self, environ, boto_ok, client) ==
    LET runtime_arn ==
            IF ~Falsy(environ["ORDER_AGENT_RUNTIME_ARN"])
            THEN environ["ORDER_AGENT_RUNTIME_ARN"]
            ELSE _extract_runtime_arn_from_agent_url(self.agent_url)
    IN  IF Falsy(runtime_arn)
        THEN [self |-> self, exc |-> "Order Agent runtime ARN is missing",
              resolved |-> TRUE, created |-> FALSE]
        ELSE IF ~boto_ok
        THEN [self |-> [self EXCEPT !._runtime_arn = runtime_arn],
              exc |-> "boto3.client raised", resolved |-> TRUE, created |-> FALSE]
        ELSE [self |-> [self EXCEPT !._runtime_arn = runtime_arn,
                                    !._agentcore_client = client,
                                    !._initialized = TRUE],
              exc |-> "", resolved |-> TRUE, created |-> TRUE]

\* (2) an initialised instance follows a changed override
_ensure_initialized_rereading_override(self, environ, boto_ok, client) ==
    IF self._initialized
    THEN [self |-> [self EXCEPT !._runtime_arn =
                        IF ~Falsy(environ["ORDER_AGENT_RUNTIME_ARN"])
                        THEN environ["ORDER_AGENT_RUNTIME_ARN"] ELSE @],
          exc |-> "", resolved |-> FALSE, created |-> FALSE]
    ELSE _ensure_initialized_without_guard(self, environ, boto_ok, client)

\* (3) the endpoint is asked before the override
_ensure_initialized_endpoint_first(self, environ, boto_ok, client) ==
    IF self._initialized
    THEN [self |-> self, exc |-> "", resolved |-> FALSE, created |-> FALSE]
    ELSE LET runtime_arn ==
                 IF ~Falsy(_extract_runtime_arn_from_agent_url(self.agent_url))
                 THEN _extract_runtime_arn_from_agent_url(self.agent_url)
                 ELSE environ["ORDER_AGENT_RUNTIME_ARN"]
         IN  IF Falsy(runtime_arn)
             THEN [self |-> self, exc |-> "Order Agent runtime ARN is missing",
                   resolved |-> TRUE, created |-> FALSE]
             ELSE IF ~boto_ok
             THEN [self |-> [self EXCEPT !._runtime_arn = runtime_arn],
                   exc |-> "boto3.client raised", resolved |-> TRUE, created |-> FALSE]
             ELSE [self |-> [self EXCEPT !._runtime_arn = runtime_arn,
                                         !._agentcore_client = client,
                                         !._initialized = TRUE],
                   exc |-> "", resolved |-> TRUE, created |-> TRUE]

\* (4) the flag is set before the client is created
_ensure_initialized_flag_before_client(self, environ, boto_ok, client) ==
    IF self._initialized
    THEN [self |-> self, exc |-> "", resolved |-> FALSE, created |-> FALSE]
    ELSE LET runtime_arn ==
                 IF ~Falsy(environ["ORDER_AGENT_RUNTIME_ARN"])
                 THEN environ["ORDER_AGENT_RUNTIME_ARN"]
                 ELSE _extract_runtime_arn_from_agent_url(self.agent_url)
         IN  IF Falsy(runtime_arn)
             THEN [self |-> self, exc |-> "Order Agent runtime ARN is missing",
                   resolved |-> TRUE, created |-> FALSE]
             ELSE IF ~boto_ok
             THEN [self |-> [self EXCEPT !._runtime_arn = runtime_arn, !._initialized = TRUE],
                   exc |-> "boto3.client raised", resolved |-> TRUE, created |-> FALSE]
             ELSE [self |-> [self EXCEPT !._runtime_arn = runtime_arn,
                                         !._agentcore_client = client,
                                         !._initialized = TRUE],
                   exc |-> "", resolved |-> TRUE, created |-> TRUE]

_ensure_initialized(self, environ, boto_ok, client) ==
    IF self._initialized
    THEN [self |-> self, exc |-> "", resolved |-> FALSE, created |-> FALSE]
    ELSE LET runtime_arn ==
                 IF ~Falsy(environ["ORDER_AGENT_RUNTIME_ARN"])
                 THEN environ["ORDER_AGENT_RUNTIME_ARN"]
                 ELSE _extract_runtime_arn_from_agent_url(self.agent_url)
         IN  IF Falsy(runtime_arn)
             THEN [self |-> self, exc |-> "Order Agent runtime ARN is missing",
                   resolved |-> TRUE, created |-> FALSE]
             ELSE IF ~boto_ok
             THEN [self |-> [self EXCEPT !._runtime_arn = runtime_arn],
                   exc |-> "boto3.client raised", resolved |-> TRUE, created |-> FALSE]
             ELSE [self |-> [self EXCEPT !._runtime_arn = runtime_arn,
                                         !._agentcore_client = client,
                                         !._initialized = TRUE],
                   exc |-> "", resolved |-> TRUE, created |-> TRUE]

(***************************************************************************)
(* Input validation and the texts of the three A2A capabilities.           *)
(***************************************************************************)
NoError == <<>>

\* list_waiting_receipt_orders_by_sku: `if not sku or not sku.strip()`
list_validation(sku) ==
    IF Falsy(sku) \/ strip(sku) = EMPTY
    THEN <<Lit("Error: SKU parameter is required")>>
    ELSE NoError

\* A variant that refuses an order id for which no approval workflow was started.
process_validation_requiring_started(order_id) ==
    IF Falsy(order_id) \/ strip(order_id) = EMPTY
    THEN <<Lit("Error: order_id parameter is required")>>
    ELSE IF \A i \in 1..Len(executions) : executions[i].input.orderId # order_id
    THEN <<Lit("Error: order is not approved")>>
    ELSE NoError

\* process_approved_order: `if not order_id or not order_id.strip()`
process_validation(order_id) ==
    IF Falsy(order_id) \/ strip(order_id) = EMPTY
    THEN <<Lit("Error: order_id parameter is required")>>
    ELSE NoError

\* create_order_registration: the body of `for idx, item in enumerate(items)`
item_validation(idx, item) ==
    IF ~IsDict(item)
    THEN <<Lit("Error: items["), Idx(idx), Lit("] must be a dictionary with 'sku' and 'qty' keys")>>
    ELSE IF ~HasKey(item, "sku") \/ ~HasKey(item, "qty")
    THEN <<Lit("Error: items["), Idx(idx), Lit("] must contain both 'sku' and 'qty' keys")>>
    ELSE IF ~IsInt(Get(item, "qty")) \/ IntValue(Get(item, "qty")) <= 0
    THEN <<Lit("Error: items["), Idx(idx), Lit("].qty must be a positive integer")>>
    ELSE NoError

\* create_order_registration: the validation before the try block
create_validation(supplier_id, items) ==
    IF Falsy(supplier_id) \/ strip(supplier_id) = EMPTY
    THEN <<Lit("Error: supplier_id parameter is required")>>
    ELSE IF ~Truthy(items) \/ ~IsList(items) \/ Len(items.v) = 0
    THEN <<Lit("Error: items parameter is required and must be a non-empty list")>>
    ELSE LET bad == {i \in 1..Len(items.v) : item_validation(i - 1, items.v[i]) # NoError}
         IN  IF bad = {} THEN NoError
             ELSE LET first == CHOOSE i \in bad : \A j \in bad : i <= j
                  IN  item_validation(first - 1, items.v[first])

\* A variant that puts the trimmed sku into the text.
list_query_text_trimmed(sku) == <<Lit("List WAITING_RECEIPT orders for SKU: "), Val(strip(sku))>>

list_query_text(sku) == <<Lit("List WAITING_RECEIPT orders for SKU: "), Val(sku)>>

create_query_text(supplier_id, items, note) ==
    LET order_data ==
            IF note # EMPTY
            THEN PyDict([supplierId |-> PyStr(supplier_id), items |-> items, note |-> PyStr(note)])
            ELSE PyDict([supplierId |-> PyStr(supplier_id), items |-> items])
    IN  <<Lit("Create order registration with data: "), Json(order_data)>>

\* The request text of process_approved_order (Japanese in the source: "order number
\* <id> has been approved; use the finalize_approved_order tool ...").
process_query_text(order_id) ==
    <<Lit("[ja] order number "), Val(order_id),
      Lit(" [ja] has been approved. Run the formal ordering with the finalize_approved_order tool.")>>

\* A variant of uuid4() that gives the same value every time.
uuid4_repeating(n) == 1

\* uuid4(): its values are taken to be unique within the process; a value is named
\* by its rank among the values drawn (n values were drawn before it).
uuid4(n) == n + 1
\* uuid4().hex: the 32 hex characters, which identify the value
hex(u) == <<ToString(u)>>

\* The JSON-RPC envelope each capability builds; u1 and u2 are the two uuid4() values.
jsonrpc_envelope(query_text, u1, u2) ==
    [jsonrpc |-> "2.0",
     id |-> <<"req-">> \o hex(u1),
     method |-> "message/send",
     params |-> [message |-> [role |-> "user",
                              parts |-> <<[kind |-> "text", text |-> query_text]>>,
                              messageId |-> <<"msg-">> \o hex(u2)]]]

no_response_text(op, agent_name) ==
    CASE op = "list" -> <<Lit("No response received from "), Val(agent_name)>>
      [] op = "create" -> <<Lit("No response received from "), Val(agent_name),
                            Lit(" for order registration")>>
      [] op = "process" -> <<Lit("No response received from "), Val(agent_name),
                             Lit(" for order processing")>>

error_text(op, agent_name, e) ==
    CASE op = "list" -> <<Lit("Error contacting "), Val(agent_name), Lit(" via A2A: "), ExcText(e)>>
      [] op = "create" -> <<Lit("Error registering order via "), Val(agent_name), Lit(" A2A: "), ExcText(e)>>
      [] op = "process" -> <<Lit("Error processing approved order via "), Val(agent_name),
                             Lit(" A2A: "), ExcText(e)>>

(***************************************************************************)
(* The three A2A capabilities share one skeleton:                          *)
(*     await self._ensure_initialized()        (outside the try block)     *)
(*     validation, returning an error text                                 *)
(*     try: build the envelope; await asyncio.to_thread(invoke); extract   *)
(*     except Exception: return an error text                              *)
(* The coroutine runs without interruption up to the await of to_thread.   *)
(***************************************************************************)
CanCall(t) == call[t].pc \in {"idle", "done"} /\ ncalls < MaxCalls

\* Whether boto3.client returns or raises matters only when it is called.
BotoOutcomes == IF bridge._initialized THEN {TRUE} ELSE BOOLEAN

A2ACall(t, op, arg, items, note, error, query_text) ==
    /\ CanCall(t)
    /\ \E boto_ok \in BotoOutcomes :
         LET init == _ensure_initialized(bridge, env, boto_ok, NewClient)
             c0 == [NoCall EXCEPT !.op = op, !.arg = arg, !.items = items, !.note = note,
                                  !.first = ~bridge._initialized,
                                  !.clients = IF init.created THEN 1 ELSE 0]
             u1 == uuid4(uuids)
             u2 == uuid4(uuids + 1)
         IN  /\ bridge' = init.self
             /\ boto' = [boto EXCEPT !.clients = @ + (IF init.created THEN 1 ELSE 0),
                                     !.resolutions = @ + (IF init.resolved THEN 1 ELSE 0)]
             /\ IF init.exc # ""
                THEN /\ call' = [call EXCEPT ![t] =
                            [c0 EXCEPT !.pc = "done", !.outcome = "raised", !.exc = init.exc]]
                     /\ UNCHANGED uuids
                ELSE IF error # NoError
                THEN /\ call' = [call EXCEPT ![t] =
                            [c0 EXCEPT !.pc = "done", !.outcome = "returned", !.result = error]]
                     /\ UNCHANGED uuids
                ELSE /\ call' = [call EXCEPT ![t] =
                            [c0 EXCEPT !.pc = "invoking",
                                       !.envelope = jsonrpc_envelope(query_text, u1, u2)]]
                     /\ uuids' = uuids + 2
    /\ ncalls' = ncalls + 1
    /\ UNCHANGED <<env, invocations, executions, parse_vars>>

list_waiting_receipt_orders_by_sku(t, sku) ==
    A2ACall(t, "list", sku, PyNone, EMPTY, list_validation(sku), list_query_text(sku))

create_order_registration(t, supplier_id, items, note) ==
    A2ACall(t, "create", supplier_id, items, note,
            create_validation(supplier_id, items),
            create_query_text(supplier_id, items, note))

process_approved_order(t, order_id) ==
    A2ACall(t, "process", order_id, PyNone, EMPTY,
            process_validation(order_id), process_query_text(order_id))

(***************************************************************************)
(* OrderAgentA2ATool._invoke_jsonrpc_sync, run by asyncio.to_thread in a   *)
(* worker thread: first the check and the request, later the response.     *)
(***************************************************************************)
_invoke_jsonrpc_sync_request(t) ==
    /\ call[t].pc = "invoking"
    /\ IF bridge._runtime_arn = None \/ bridge._agentcore_client = None
       THEN /\ call' = [call EXCEPT ![t].pc = "done", ![t].outcome = "returned",
                          ![t].result = error_text(call[t].op, bridge.agent_name,
                                                   "Order Agent A2A client is not initialized")]
            /\ UNCHANGED invocations
       ELSE /\ invocations' = Append(invocations,
                                     [task |-> t,
                                      client |-> bridge._agentcore_client,
                                      agentRuntimeArn |-> bridge._runtime_arn,
                                      payload |-> call[t].envelope])
            /\ call' = [call EXCEPT ![t].pc = "inflight", ![t].sent = @ + 1]
    /\ UNCHANGED <<env, bridge, boto, executions, uuids, ncalls, parse_vars>>

\* A variant that takes a response without a body for an empty response.
a2a_result_missing_body_as_no_response(op, agent_name, outcome) ==
    CASE outcome.kind = "invoke-raises" -> error_text(op, agent_name, "invoke_agent_runtime raised")
      [] outcome.kind = "body-missing" -> no_response_text(op, agent_name)
      [] outcome.kind = "read-raises" -> error_text(op, agent_name, "body.read raised")
      [] outcome.kind = "body" ->
            LET response_text == _extract_first_artifact_text(outcome.raw)
            IN  IF TextTruthy(response_text)
                THEN <<response_text>>
                ELSE no_response_text(op, agent_name)

\* What the capability returns once the awaited invocation has ended with `outcome`.
a2a_result(op, agent_name, outcome) ==
    CASE outcome.kind = "invoke-raises" -> error_text(op, agent_name, "invoke_agent_runtime raised")
      [] outcome.kind = "body-missing" -> error_text(op, agent_name, "AgentCore response body is missing")
      [] outcome.kind = "read-raises" -> error_text(op, agent_name, "body.read raised")
      [] outcome.kind = "body" ->
            LET response_text == _extract_first_artifact_text(outcome.raw)
            IN  IF TextTruthy(response_text)
                THEN <<response_text>>
                ELSE no_response_text(op, agent_name)

\* A variant that issues the invocation again when it did not give a body.
_invoke_jsonrpc_sync_response_retrying(t, outcome) ==
    /\ call[t].pc = "inflight"
    /\ IF outcome.kind # "body" /\ call[t].sent < 2
       THEN call' = [call EXCEPT ![t].pc = "invoking"]
       ELSE call' = [call EXCEPT ![t].pc = "done", ![t].outcome = "returned",
                                 ![t].response = outcome,
                                 ![t].result = a2a_result(call[t].op, bridge.agent_name, outcome)]
    /\ UNCHANGED <<env, bridge, boto, invocations, executions, uuids, ncalls, parse_vars>>

_invoke_jsonrpc_sync_response(t, outcome) ==
    /\ call[t].pc = "inflight"
    /\ IF call[t].outcome = "cancelled"
       THEN \* nothing awaits the thread any more: its return value is dropped
            call' = [call EXCEPT ![t].pc = "done", ![t].response = outcome]
       ELSE call' = [call EXCEPT ![t].pc = "done", ![t].outcome = "returned",
                                 ![t].response = outcome,
                                 ![t].result = a2a_result(call[t].op, bridge.agent_name, outcome)]
    /\ UNCHANGED <<env, bridge, boto, invocations, executions, uuids, ncalls, parse_vars>>

(***************************************************************************)
(* The task awaiting a capability is cancelled (task.cancel(), a deadline). *)
(* CancelledError is raised at `await asyncio.to_thread(...)`; it is not an *)
(* Exception, so the except block does not catch it and the capability ends *)
(* with it.  The function given to to_thread is not touched: if its work    *)
(* item has not begun it is dropped, otherwise the thread runs on to the    *)
(* end of _invoke_jsonrpc_sync.                                             *)
(***************************************************************************)
Cancel(t) ==
    /\ call[t].pc \in {"invoking", "inflight"}
    /\ call[t].outcome = "none"
    /\ \/ \* the work item had not begun: it never runs
          /\ call[t].pc = "invoking"
          /\ call' = [call EXCEPT ![t].pc = "done", ![t].outcome = "cancelled"]
       \/ \* the thread has begun: it goes on
          call' = [call EXCEPT ![t].outcome = "cancelled"]
    /\ UNCHANGED <<env, bridge, boto, invocations, executions, uuids, ncalls, parse_vars>>

(***************************************************************************)
(* OrderAgentA2ATool.start_approval_workflow.  It awaits nothing; both     *)
(* boto3 calls are made inline.  sfn_ok: boto3.client returns; start_ok:   *)
(* start_execution returns; hex8: the first 8 hex characters of uuid4().   *)
(***************************************************************************)
EXECUTION_ARN == <<"a", "r", "n", ":", "e", "x", "e", "c">>
START_DATE == <<"2", "0", "2", "5">>

execution_name(order_id, hex8) == <<"approval-">> \o order_id \o <<"-", hex8>>

start_success_text(order_id, approver_email, execution_arn, start_date) ==
    <<Lit("[ok] [ja] approval workflow started; order number: "), Val(order_id),
      Lit("; approver: "), Val(approver_email),
      Lit("; execution ARN: "), Val(execution_arn),
      Lit("; start time: "), Val(start_date),
      Lit("; [ja] a mail with the approval link is sent; the workflow waits for the approver.")>>

start_failure_text(e) ==
    <<Lit("[x] [ja] failed to start the approval workflow: "), ExcText(e)>>

\* A variant of the checks that looks at order_id and the approver contact only.
start_validation_without_state_machine_check(order_id, environ) ==
    IF Falsy(order_id) \/ strip(order_id) = EMPTY
    THEN <<Lit("Error: order_id parameter is required")>>
    ELSE IF Falsy(environ["APPROVAL_APPROVER_EMAIL"])
    THEN <<Lit("Error: APPROVAL_APPROVER_EMAIL environment variable is not set")>>
    ELSE NoError

\* The checks before the try block: the text returned, NoError when all pass.
start_validation(order_id, environ) ==
    IF Falsy(order_id) \/ strip(order_id) = EMPTY
    THEN <<Lit("Error: order_id parameter is required")>>
    ELSE IF Falsy(environ["APPROVAL_STATE_MACHINE_ARN"])
    THEN <<Lit("Error: APPROVAL_STATE_MACHINE_ARN environment variable is not set")>>
    ELSE IF Falsy(environ["APPROVAL_APPROVER_EMAIL"])
    THEN <<Lit("Error: APPROVAL_APPROVER_EMAIL environment variable is not set")>>
    ELSE NoError

\* A variant of the request whose input carries the order id only.
start_execution_request_without_approver(order_id, environ, hex8) ==
    [stateMachineArn |-> environ["APPROVAL_STATE_MACHINE_ARN"],
     name |-> execution_name(order_id, hex8),
     input |-> [orderId |-> order_id]]

\* The arguments of sfn_client.start_execution
start_execution_request(order_id, environ, hex8) ==
    [stateMachineArn |-> environ["APPROVAL_STATE_MACHINE_ARN"],
     name |-> execution_name(order_id, hex8),
     input |-> [orderId |-> order_id, approverEmail |-> environ["APPROVAL_APPROVER_EMAIL"]]]

start_approval_workflow(t, order_id) ==
    /\ CanCall(t)
    /\ LET c0 == [NoCall EXCEPT !.op = "start", !.arg = order_id, !.pc = "done",
                                !.outcome = "returned", !.first = ~bridge._initialized]
           error == start_validation(order_id, env)
           approver_email == env["APPROVAL_APPROVER_EMAIL"]
       IN  IF error # NoError
           THEN /\ call' = [call EXCEPT ![t] = [c0 EXCEPT !.result = error]]
                /\ UNCHANGED <<boto, executions, uuids>>
           ELSE \/ \* boto3.client("stepfunctions") raises
                   /\ call' = [call EXCEPT ![t] =
                          [c0 EXCEPT !.result = start_failure_text("boto3.client raised")]]
                   /\ UNCHANGED <<boto, executions, uuids>>
                \/ \* the client is created and start_execution is called
                   \E hex8 \in Hex8Values, start_ok \in BOOLEAN :
                     LET request == start_execution_request(order_id, env, hex8)
                     IN  /\ boto' = [boto EXCEPT !.sfn_clients = @ + 1]
                         /\ uuids' = uuids + 1
                         /\ executions' = Append(executions, request)
                         /\ call' = [call EXCEPT ![t] =
                                [c0 EXCEPT !.started = 1, !.clients = 1, !.envelope = request,
                                           !.result =
                                               IF start_ok
                                               THEN start_success_text(order_id, approver_email,
                                                                       EXECUTION_ARN, START_DATE)
                                               ELSE start_failure_text("start_execution raised")]]
    /\ ncalls' = ncalls + 1
    /\ UNCHANGED <<env, bridge, invocations, parse_vars>>

(***************************************************************************)
(* The environment of the process may be changed between any two steps.    *)
(***************************************************************************)
SetEnv(name, value) ==
    /\ env[name] # value
    /\ env' = [env EXCEPT ![name] = value]
    /\ UNCHANGED <<bridge, boto, invocations, executions, uuids, call, ncalls, parse_vars>>

(***************************************************************************)
(* Spec: one bridge instance, two tasks calling its four capabilities.     *)
(***************************************************************************)
SpecStrArgs == {EMPTY, P1}
SpecItems == {1, 2}
SpecOutcomes == {1, 2, 3}

Init ==
    \E url \in OrderAgentUrls :
        InitWith([name \in EnvNames |->
                     CASE name = "ORDER_AGENT_RUNTIME_ARN" -> None
                       [] name = "APPROVAL_STATE_MACHINE_ARN" -> STATE_MACHINE_ARN
                       [] name = "APPROVAL_APPROVER_EMAIL" -> APPROVER_EMAIL], url)

Next ==
    \/ \E t \in Tasks, sku \in SpecStrArgs : list_waiting_receipt_orders_by_sku(t, sku)
    \/ \E t \in Tasks, i \in SpecItems : create_order_registration(t, P1, ItemsArgs[i], EMPTY)
    \/ \E t \in Tasks, order_id \in SpecStrArgs : process_approved_order(t, order_id)
    \/ \E t \in Tasks, order_id \in SpecStrArgs : start_approval_workflow(t, order_id)
    \/ \E t \in Tasks : _invoke_jsonrpc_sync_request(t)
    \/ \E t \in Tasks, i \in SpecOutcomes : _invoke_jsonrpc_sync_response(t, TransportOutcomes[i])
    \/ \E value \in EnvValues("ORDER_AGENT_RUNTIME_ARN") : SetEnv("ORDER_AGENT_RUNTIME_ARN", value)

Spec == Init /\ [][Next]_vars

(***************************************************************************)
(* SpecApproval: the approval workflow initiator alone, with every value   *)
(* of its two configuration names and two tasks starting workflows.        *)
(***************************************************************************)
ApprovalOrderIds == {EMPTY, <<" ">>, P1, P2}

InitApproval == InitWith([name \in EnvNames |-> None], URL_RUNTIME)

NextApproval ==
    \/ \E t \in Tasks, order_id \in ApprovalOrderIds : start_approval_workflow(t, order_id)
    \/ \E value \in EnvValues("APPROVAL_STATE_MACHINE_ARN") :
           SetEnv("APPROVAL_STATE_MACHINE_ARN", value)
    \/ \E value \in EnvValues("APPROVAL_APPROVER_EMAIL") :
           SetEnv("APPROVAL_APPROVER_EMAIL", value)

SpecApproval == InitApproval /\ [][NextApproval]_vars

(***************************************************************************)
(* SpecParse: _extract_first_artifact_text applied to every raw response   *)
(* text of at most MaxLines lines drawn from ResponseLines.                *)
(***************************************************************************)
InitParse ==
    /\ env = [name \in EnvNames |-> None]
    /\ bridge = create_order_agent_a2a_tool(URL_RUNTIME)
    /\ boto = [clients |-> 0, resolutions |-> 0, sfn_clients |-> 0]
    /\ invocations = <<>>
    /\ executions = <<>>
    /\ uuids = 0
    /\ call = [t \in Tasks |-> NoCall]
    /\ ncalls = 0
    /\ \E n \in 0..MaxLines : \E pick \in [1..n -> 1..Len(ResponseLines)] :
           jsonrpc_text = [i \in 1..n |-> ResponseLines[pick[i]]]
    /\ extracted = NotExtracted
    /\ endpoint = URL_RUNTIME
    /\ resolution = NotResolved
    /\ InitLambda(None)

Extract ==
    /\ extracted = NotExtracted
    /\ extracted' = _extract_first_artifact_text(jsonrpc_text)
    /\ UNCHANGED <<env, bridge, boto, invocations, executions, uuids, call, ncalls, jsonrpc_text,
                   endpoint, resolution, presign_vars>>

NextParse == Extract

SpecParse == InitParse /\ [][NextParse]_vars

(***************************************************************************)
(* SpecTransport: the three A2A capabilities with valid inputs on a bridge *)
(* whose endpoint resolves, and every outcome of the transport invocation. *)
(***************************************************************************)
\* a sku that is non-empty after trim and has surrounding whitespace
P1_SPACED == <<" ", "P", "1", " ">>
TransportSkus == {P1, P1_SPACED}

InitTransport ==
    InitWith([name \in EnvNames |->
                 CASE name = "ORDER_AGENT_RUNTIME_ARN" -> None
                   [] name = "APPROVAL_STATE_MACHINE_ARN" -> STATE_MACHINE_ARN
                   [] name = "APPROVAL_APPROVER_EMAIL" -> APPROVER_EMAIL], URL_RUNTIME)

NextTransport ==
    \/ \E t \in Tasks, sku \in TransportSkus : list_waiting_receipt_orders_by_sku(t, sku)
    \/ \E t \in Tasks : create_order_registration(t, P1, ItemsArgs[1], EMPTY)
    \/ \E t \in Tasks : process_approved_order(t, P1)
    \/ \E t \in Tasks : _invoke_jsonrpc_sync_request(t)
    \/ \E t \in Tasks, i \in 1..Len(TransportOutcomes) :
           _invoke_jsonrpc_sync_response(t, TransportOutcomes[i])

SpecTransport == InitTransport /\ [][NextTransport]_vars

(***************************************************************************)
(* SpecCancel: calls of list_waiting_receipt_orders_by_sku by two tasks,   *)
(* each of which can be cancelled while it awaits its invocation.          *)
(***************************************************************************)
CancelOutcomes == {1, 3}

NextCancel ==
    \/ \E t \in Tasks : list_waiting_receipt_orders_by_sku(t, P1)
    \/ \E t \in Tasks : _invoke_jsonrpc_sync_request(t)
    \/ \E t \in Tasks, i \in CancelOutcomes : _invoke_jsonrpc_sync_response(t, TransportOutcomes[i])
    \/ \E t \in Tasks : Cancel(t)

SpecCancel == InitTransport /\ [][NextCancel]_vars

(***************************************************************************)
(* SpecUrl: endpoint normalisation and identifier resolution applied to    *)
(* endpoint strings: every concatenation of at most MaxTokens tokens, and  *)
(* every string lead + base + /runtimes/ + id + tail + query + trail.      *)
(***************************************************************************)
ENCODED_ID == <<"a", "%", "3", "A", "b">>
UrlTokens == << <<" ">>, <<"/">>, <<"?">>, <<"h">>, RUNTIMES_MARKER, INVOCATIONS,
                ENCODED_ID, ARN_PREFIX >>

RECURSIVE Concat(_)
Concat(parts) == IF parts = <<>> THEN EMPTY ELSE Head(parts) \o Concat(Tail(parts))

TokenEndpoints ==
    UNION {{Concat([i \in 1..n |-> UrlTokens[pick[i]]]) : pick \in [1..n -> 1..Len(UrlTokens)]}
              : n \in 0..MaxTokens}

FormLeads == {EMPTY, <<" ">>}
PlainBases == {EMPTY, <<"h">>, <<"h", ":", "/", "/", "x", "/", "p">>}
FormBases == PlainBases \cup {<<"h">> \o INVOCATIONS, <<"h", "?", "v">>}
FormIds == {EMPTY, ENCODED_ID, <<"x", "%", "2", "F", "y">>}
FormTails == {EMPTY, INVOCATIONS, INVOCATIONS \o <<"/">>, INVOCATIONS \o <<"/", "p">>,
              INVOCATIONS \o INVOCATIONS}
FormQueries == {EMPTY, <<"?", "q">>, <<"?", "q", "=">> \o INVOCATIONS}
FormTrails == {EMPTY, <<" ">>}

RuntimeUrl(lead, base, id, tail, query, trail) ==
    lead \o base \o RUNTIMES_MARKER \o id \o tail \o query \o trail

FormEndpoints ==
    {RuntimeUrl(lead, base, id, tail, query, trail) :
        lead \in FormLeads, base \in FormBases, id \in FormIds, tail \in FormTails,
        query \in FormQueries, trail \in FormTrails}

InitUrl ==
    /\ env = [name \in EnvNames |-> None]
    /\ bridge = create_order_agent_a2a_tool(URL_RUNTIME)
    /\ boto = [clients |-> 0, resolutions |-> 0, sfn_clients |-> 0]
    /\ invocations = <<>>
    /\ executions = <<>>
    /\ uuids = 0
    /\ call = [t \in Tasks |-> NoCall]
    /\ ncalls = 0
    /\ jsonrpc_text = <<>>
    /\ extracted = NotExtracted
    /\ endpoint \in TokenEndpoints \cup FormEndpoints
    /\ resolution = NotResolved
    /\ InitLambda(None)

\* create_order_agent_a2a_tool normalises the endpoint; _ensure_initialized resolves
\* the identifier from the string it is given.
Resolve ==
    /\ ~resolution.done
    /\ resolution' =
          [normalized |-> _normalize_agentcore_a2a_base_url(endpoint),
           resolved |-> _extract_runtime_arn_from_agent_url(endpoint),
           resolved_normalized |->
               _extract_runtime_arn_from_agent_url(_normalize_agentcore_a2a_base_url(endpoint)),
           done |-> TRUE]
    /\ UNCHANGED <<env, bridge, boto, invocations, executions, uuids, call, ncalls,
                   jsonrpc_text, extracted, endpoint, presign_vars>>

NextUrl == Resolve

SpecUrl == InitUrl /\ [][NextUrl]_vars

(***************************************************************************)
(* The presigned-URL Lambda (src/infra-cdk/lambdas/presigned-url/index.py). *)
(* Its event is an API Gateway proxy event: a dict whose "headers" is a     *)
(* dict or null and whose "body", when present, is a str or null.           *)
(***************************************************************************)
ALLOWED_EXTENSIONS == {<<".", "x", "l", "s", "x">>, <<".", "x", "l", "s">>}
MAX_FILE_SIZE == 10 * 1024 * 1024

\* str.lower()
lower(s) ==
    LET UPPERCASE == <<"A", "B", "C", "D", "E", "F", "G", "H", "I", "J", "K", "L", "M",
                       "N", "O", "P", "Q", "R", "S", "T", "U", "V", "W", "X", "Y", "Z">>
        LOWERCASE == <<"a", "b", "c", "d", "e", "f", "g", "h", "i", "j", "k", "l", "m",
                       "n", "o", "p", "q", "r", "s", "t", "u", "v", "w", "x", "y", "z">>
    IN  [i \in 1..Len(s) |->
            IF \E k \in 1..26 : UPPERCASE[k] = s[i]
            THEN LOWERCASE[CHOOSE k \in 1..26 : UPPERCASE[k] = s[i]]
            ELSE s[i]]

\* str.rfind(ch) + 1: the position of the last ch, 0 when there is none
rfind(s, ch) ==
    IF \E i \in 1..Len(s) : s[i] = ch
    THEN CHOOSE i \in 1..Len(s) : s[i] = ch /\ \A j \in (i + 1)..Len(s) : s[j] # ch
    ELSE 0

\* os.path.splitext(p)[1]: the text from the last dot of the last path component,
\* empty when that component has no dot or nothing but dots before it
splitext_ext(p) ==
    LET sepIndex == rfind(p, "/")
        dotIndex == rfind(p, ".")
    IN  IF /\ dotIndex > sepIndex
           /\ \E k \in (sepIndex + 1)..(dotIndex - 1) : p[k] # "."
        THEN SubSeq(p, dotIndex, Len(p))
        ELSE EMPTY

\* validate_file_extension(filename), filename a str
validate_file_extension(filename) ==
    IF filename = EMPTY THEN FALSE
    ELSE lower(splitext_ext(filename)) \in ALLOWED_EXTENSIONS

\* A str given by what base64 decoding looks at: how many of its characters are of
\* the base64 alphabet, how many "=" end it, and how many other ASCII characters
\* it holds.
B64Str(alphabet, pad, foreign) ==
    [t |-> "str", v |-> <<[alphabet |-> alphabet, pad |-> pad, foreign |-> foreign]>>]
B64Counts(x) == IF x.v = EMPTY THEN [alphabet |-> 0, pad |-> 0, foreign |-> 0] ELSE x.v[1]

\* base64.b64decode(x) with validate left at False: characters outside the
\* alphabet are discarded, "=" where no group is open is ignored, and the call
\* raises when the last group is left incomplete; anything but a str or bytes
\* raises as well.  The result is the length of the decoded bytes.
b64decode(x) ==
    IF ~IsStr(x) THEN [raised |-> TRUE, len |-> 0]
    ELSE LET c == B64Counts(x)
             groups == c.alphabet \div 4
             rest == c.alphabet % 4
         IN  CASE rest = 0 -> [raised |-> FALSE, len |-> 3 * groups]
               [] rest = 2 /\ c.pad >= 2 -> [raised |-> FALSE, len |-> 3 * groups + 1]
               [] rest = 3 /\ c.pad >= 1 -> [raised |-> FALSE, len |-> 3 * groups + 2]
               [] OTHER -> [raised |-> TRUE, len |-> 0]

\* get_cors_headers(origin), CORS_ALLOWED_ORIGINS left at its default
get_cors_headers(origin) ==
    LET origins == <<"http://localhost:3000">>
    IN  [ContentType |-> "application/json",
         AccessControlAllowOrigin |->
            IF \E i \in 1..Len(origins) : origins[i] = origin THEN origin ELSE origins[1],
         AccessControlAllowHeaders |-> "Content-Type,Authorization",
         AccessControlAllowMethods |-> "POST,OPTIONS"]

\* str(uuid.uuid4())
str_uuid(u) == <<ToString(u)>>

\* event.get("body", "{}") and json.loads of it: an event without "body" gives the
\* empty object, a null body makes json.loads raise TypeError, a text that is not
\* JSON makes it raise JSONDecodeError.
Event(method, headers, body) == [httpMethod |-> method, headers |-> headers, body |-> body]
loads_body(ev) ==
    CASE ev.body.kind = "absent" -> [exc |-> "", value |-> PyDict(<<>>)]
      [] ev.body.kind = "null" -> [exc |-> "TypeError", value |-> PyNone]
      [] ev.body.json = NotJson -> [exc |-> "JSONDecodeError", value |-> PyNone]
      [] OTHER -> [exc |-> "", value |-> ev.body.json]

\* lines 86-87: the origin the CORS headers answer to
origin_of(ev) ==
    LET headers == IF Truthy(ev.headers) THEN ev.headers ELSE PyDict(<<>>)
    IN  IF HasKey(headers, "origin") THEN headers.v["origin"]
        ELSE IF HasKey(headers, "Origin") THEN headers.v["Origin"]
        ELSE "*"

Returned(status, origin, body) ==
    [raised |-> FALSE, statusCode |-> status, headers |-> get_cors_headers(origin), body |-> body]
\* what the body of the try statement comes to: a response it returns or an
\* exception it raises, and the object put_object stored on the way
Returns(resp, put, drawn) == [exc |-> "", resp |-> resp, put |-> put, drawn |-> drawn]
Raises(exc, put, drawn) == [exc |-> exc, resp |-> NoResponse, put |-> put, drawn |-> drawn]

\* lines 146-193: the upload, once every check has passed.  n uuid4() values were
\* drawn before; put_ok and presign_ok tell whether put_object and
\* generate_presigned_url return or raise ClientError.
upload(bucket, origin, original_file_name, size, n, put_ok, presign_ok) ==
    LET file_extension == lower(splitext_ext(original_file_name))
        safe_file_name == str_uuid(uuid4(n)) \o file_extension
        temp_key == <<"temp/">> \o str_uuid(uuid4(n + 1)) \o <<"/">> \o safe_file_name
        content_md5 == <<"md5", size>>
        content_type ==
            IF file_extension = <<".", "x", "l", "s", "x">>
            THEN "application/vnd.openxmlformats-officedocument.spreadsheetml.sheet"
            ELSE "application/vnd.ms-excel"
        \* original_file_name[:255]
        truncated == SubSeq(original_file_name, 1,
                            IF Len(original_file_name) < 255
                            THEN Len(original_file_name) ELSE 255)
        object == [Bucket |-> bucket,
                   Key |-> temp_key,
                   Body |-> size,
                   ContentType |-> content_type,
                   ContentMD5 |-> content_md5,
                   Metadata |-> [original_filename |-> truncated,
                                 upload_source |-> "order-upload-ui"]]
    IN  IF ~put_ok THEN Raises("ClientError", <<>>, 2)
        ELSE IF ~presign_ok THEN Raises("ClientError", <<object>>, 2)
        ELSE Returns(Returned(200, origin,
                              PyDict([presignedUrl |-> <<"get_object", bucket, temp_key>>,
                                      tempKey |-> temp_key,
                                      contentMd5 |-> content_md5,
                                      originalFileName |-> original_file_name])),
                     <<object>>, 2)

\* lines 97-193: the body of the try statement
try_body(ev, bucket, n, put_ok, presign_ok) ==
    LET origin == origin_of(ev)
        loaded == loads_body(ev)
        body == loaded.value
        file_name == Get(body, "fileName")
        file_content_b64 == Get(body, "fileContent")
        decoded == b64decode(file_content_b64)
        Failure(text) == PyDict([error |-> text])
        Bad(text) == Returns(Returned(400, origin, Failure(text)), <<>>, 0)
    IN  IF Falsy(bucket)
        THEN Returns(Returned(500, origin, Failure("Server configuration error")), <<>>, 0)
        ELSE IF loaded.exc # "" THEN Raises(loaded.exc, <<>>, 0)
        ELSE IF ~IsDict(body) THEN Raises("AttributeError", <<>>, 0)
        ELSE IF ~Truthy(file_name) \/ ~Truthy(file_content_b64)
        THEN Bad("Missing required fields: fileName, fileContent")
        ELSE IF ~IsStr(file_name) THEN Raises("TypeError", <<>>, 0)
        ELSE IF ~validate_file_extension(file_name.v)
        THEN Bad("Invalid file type. Only .xlsx and .xls files are allowed.")
        ELSE IF decoded.raised THEN Bad("Invalid base64 encoding")
        ELSE IF decoded.len > MAX_FILE_SIZE THEN Bad("File size exceeds 10MB limit")
        ELSE upload(bucket, origin, file_name.v, decoded.len, n, put_ok, presign_ok)

\* lines 195-214: the except clauses, in their order
except_clauses(exc, origin) ==
    LET Failure(text) == PyDict([error |-> text])
    IN
    CASE exc = "ClientError" -> Returned(500, origin, Failure("Failed to upload file"))
      [] exc = "JSONDecodeError" -> Returned(400, origin, Failure("Invalid JSON in request body"))
      [] exc \in {"TypeError", "AttributeError"} ->
            Returned(500, origin, Failure("Internal server error"))
      [] OTHER -> [raised |-> TRUE, statusCode |-> 0]

\* handler(event, context): one invocation of the Lambda
handler(ev, put_ok, presign_ok) ==
    /\ ncalls < MaxCalls
    /\ ncalls' = ncalls + 1
    /\ event' = ev
    /\ IF ev.httpMethod = "OPTIONS"
       THEN /\ response' = Returned(200, origin_of(ev), PyStr(EMPTY))
            /\ UNCHANGED <<s3_objects, uuids>>
       ELSE LET tried == try_body(ev, TEMP_BUCKET, uuids, put_ok, presign_ok)
            IN  /\ response' = IF tried.exc = "" THEN tried.resp
                               ELSE except_clauses(tried.exc, origin_of(ev))
                /\ s3_objects' = s3_objects \o tried.put
                /\ uuids' = uuids + tried.drawn
    /\ UNCHANGED <<env, bridge, boto, invocations, executions, call,
                   jsonrpc_text, extracted, endpoint, resolution, TEMP_BUCKET>>

(***************************************************************************)
(* The events the Lambda is invoked with.  The file names are "o.XLSX",     *)
(* "../x.xls", "a.txt", ".xlsx" and a number; the contents are "QUJD",      *)
(* "QQ==", "QQ=", "@@@@", a text that decodes to exactly 10MB, one that     *)
(* decodes to a byte more, a number and the empty text.                     *)
(***************************************************************************)
Upload(name, content) ==
    [kind |-> "text", json |-> PyDict([fileName |-> name, fileContent |-> content])]
Events ==
    LET o_XLSX == PyStr(<<"o", ".", "X", "L", "S", "X">>)
        FileNames == {o_XLSX,
                      PyStr(<<".", ".", "/", "x", ".", "x", "l", "s">>),
                      PyStr(<<"a", ".", "t", "x", "t">>),
                      PyStr(<<".", "x", "l", "s", "x">>),
                      PyInt(7)}
        FileContents == {B64Str(4, 0, 0), B64Str(2, 2, 0), B64Str(2, 1, 0), B64Str(0, 0, 4),
                         B64Str(13981014, 2, 0), B64Str(13981015, 1, 0), PyInt(5),
                         PyStr(EMPTY)}
        RequestBodies ==
            {[kind |-> "absent", json |-> PyNone],
             [kind |-> "null", json |-> PyNone],
             [kind |-> "text", json |-> NotJson],
             [kind |-> "text", json |-> PyList(<<>>)],
             [kind |-> "text", json |-> PyDict(<<>>)],
             [kind |-> "text", json |-> PyDict([fileName |-> o_XLSX])]}
                \cup {Upload(name, content) : name \in FileNames, content \in FileContents}
        ALLOWED_ORIGIN == PyDict([origin |-> "http://localhost:3000"])
        OTHER_ORIGIN == PyDict([Origin |-> "https://other.example"])
    IN  {Event("POST", PyNone, body) : body \in RequestBodies}
            \cup {Event("POST", headers, Upload(o_XLSX, B64Str(4, 0, 0))) :
                     headers \in {ALLOWED_ORIGIN, OTHER_ORIGIN}}
            \cup {Event("OPTIONS", headers, Upload(o_XLSX, B64Str(4, 0, 0))) :
                     headers \in {PyNone, ALLOWED_ORIGIN}}

InitPresign ==
    /\ env = [name \in EnvNames |-> None]
    /\ bridge = create_order_agent_a2a_tool(URL_RUNTIME)
    /\ boto = [clients |-> 0, resolutions |-> 0, sfn_clients |-> 0]
    /\ invocations = <<>>
    /\ executions = <<>>
    /\ uuids = 0
    /\ call = [t \in Tasks |-> NoCall]
    /\ ncalls = 0
    /\ jsonrpc_text = <<>>
    /\ extracted = NotExtracted
    /\ endpoint = URL_RUNTIME
    /\ resolution = NotResolved
    /\ \E bucket \in {None, <<"fast-temp-bucket">>} : InitLambda(bucket)

NextPresign == \E ev \in Events : \E put_ok \in BOOLEAN, presign_ok \in BOOLEAN :
                  handler(ev, put_ok, presign_ok)

SpecPresign == InitPresign /\ [][NextPresign]_vars

(***************************************************************************)
(* Properties.                                                             *)
(***************************************************************************)
A2AOps == {"list", "create", "process"}
Done(t) == call[t].pc = "done"
\* the step is task t entering one of the three A2A capabilities
A2AStep(t) == ncalls' = ncalls + 1 /\ call'[t] # call[t] /\ call'[t].op \in A2AOps
\* the step is task t calling start_approval_workflow
StartStep(t) == ncalls' = ncalls + 1 /\ call'[t] # call[t] /\ call'[t].op = "start"
Configured(value) == value # None /\ value # EMPTY
MISSING_ARN == "Order Agent runtime ARN is missing"

\* C1: every capability call that has ended has returned a text; none has raised.
C1_CapabilitiesNeverRaise ==
    \A t \in Tasks : Done(t) => call[t].outcome = "returned" /\ call[t].result # <<>>

C3_EnsureInitializedIdempotent ==
    [][bridge._initialized =>
          /\ bridge' = bridge
          /\ boto'.clients = boto.clients
          /\ boto'.resolutions = boto.resolutions]_vars

\* A capability was entered on the initialised instance while the override names
\* another identifier than the bound one.
C3_LaterCallAfterEnvChange ==
    /\ bridge._initialized
    /\ env["ORDER_AGENT_RUNTIME_ARN"] = OVERRIDE_ARN
    /\ bridge._runtime_arn # OVERRIDE_ARN
    /\ \E t \in Tasks : call[t].op \in A2AOps /\ call[t].pc = "invoking" /\ ~call[t].first

\* C4: a capability entered on the uninitialised instance resolves the identifier:
\* the override when one is configured, else the one the endpoint string gives.  If
\* the instance becomes initialised it is bound to that identifier; if there is none
\* the call raises the configuration error and leaves the instance as it was, with
\* no client created.
C4_OverridePrecedenceAndFailFast ==
    [][\A t \in Tasks :
          A2AStep(t) /\ ~bridge._initialized =>
             LET override == env["ORDER_AGENT_RUNTIME_ARN"]
                 expected == IF Configured(override) THEN override
                             ELSE _extract_runtime_arn_from_agent_url(bridge.agent_url)
             IN  /\ boto'.resolutions = boto.resolutions + 1
                 /\ bridge'._initialized =>
                        /\ bridge'._runtime_arn = expected
                        /\ bridge'._agentcore_client # None
                        /\ boto'.clients = boto.clients + 1
                 /\ expected = None =>
                        /\ bridge' = bridge
                        /\ ~bridge'._initialized /\ bridge'._agentcore_client = None
                        /\ boto'.clients = boto.clients
                        /\ call'[t].outcome = "raised" /\ call'[t].exc = MISSING_ARN]_vars

\* A call failed with the configuration error; after the override was configured a
\* later call initialised the instance with it.
C4_RetryAfterConfigurationError ==
    /\ \E t \in Tasks : call[t].outcome = "raised" /\ call[t].exc = MISSING_ARN
    /\ bridge._initialized /\ bridge._runtime_arn = OVERRIDE_ARN
    /\ _extract_runtime_arn_from_agent_url(bridge.agent_url) = None
    /\ boto.resolutions = 2 /\ boto.clients = 1

\* The inputs C5 lists as failing validation.
BlankArg(arg) == strip(arg) = EMPTY
InvalidItem(item) ==
    \/ ~IsDict(item)
    \/ ~HasKey(item, "sku") \/ ~HasKey(item, "qty")
    \/ Get(item, "qty").t # "int"
    \/ Get(item, "qty").v <= 0
InvalidItems(items) ==
    \/ ~IsList(items)
    \/ items.v = <<>>
    \/ \E i \in 1..Len(items.v) : InvalidItem(items.v[i])
InvalidInput(c) ==
    CASE c.op \in {"list", "process", "start"} -> BlankArg(c.arg)
      [] c.op = "create" -> BlankArg(c.arg) \/ InvalidItems(c.items)
      [] OTHER -> FALSE
ValidationTexts ==
    {"Error: SKU parameter is required", "Error: order_id parameter is required",
     "Error: supplier_id parameter is required",
     "Error: items parameter is required and must be a non-empty list", "Error: items["}

\* C5: a call whose input fails validation returns a validation failure text and
\* issues no transport invocation and no workflow start, in every state of the bridge.
C5_InvalidInputReturnsFailureText ==
    \A t \in Tasks :
        Done(t) /\ InvalidInput(call[t]) =>
            /\ call[t].outcome = "returned"
            /\ call[t].result # <<>> /\ Head(call[t].result).s \in ValidationTexts
            /\ call[t].sent = 0 /\ call[t].started = 0
SM_NOT_SET == "Error: APPROVAL_STATE_MACHINE_ARN environment variable is not set"
EMAIL_NOT_SET == "Error: APPROVAL_APPROVER_EMAIL environment variable is not set"

C7_DistinctExecutionNames ==
    \A i, j \in 1..Len(executions) : i # j => executions[i].name # executions[j].name

StartCheckTexts == {"Error: order_id parameter is required", SM_NOT_SET, EMAIL_NOT_SET}
\* the finished start_approval_workflow call c got past validation and configuration
PassedChecks(c) == Head(c.result).s \notin StartCheckTexts
StartSucceeded(c) == Head(c.result).s = Head(start_success_text(EMPTY, EMPTY, EMPTY, EMPTY)).s
Mentions(text, value) == \E i \in 1..Len(text) : text[i] = Val(value)

\* What C8 says of a finished call c apart from the number of requests: the input of
\* its request, no request from a refused call, and the content of the success text.
StartCallShape(c) ==
    /\ c.pc = "done" /\ c.outcome = "returned" /\ c.result # <<>>
    /\ c.started <= 1
    /\ ~PassedChecks(c) => c.started = 0 /\ c.clients = 0
    /\ c.started = 1 =>
          /\ \E i \in 1..Len(executions) : executions[i] = c.envelope
          /\ c.envelope.input = [orderId |-> c.arg, approverEmail |-> APPROVER_EMAIL]
          /\ c.envelope.stateMachineArn = STATE_MACHINE_ARN
    /\ StartSucceeded(c) =>
          /\ c.started = 1
          /\ Mentions(c.result, c.arg) /\ Mentions(c.result, APPROVER_EMAIL)
          /\ Mentions(c.result, EXECUTION_ARN) /\ Mentions(c.result, START_DATE)

\* C8 as claimed: every call that passes validation and the configuration check
\* issues exactly one start_execution request.
C8_ExactlyOneRequestPerPassingCall ==
    /\ Len(executions) <= ncalls
    /\ \A t \in Tasks :
         call[t].op = "start" =>
            /\ StartCallShape(call[t])
            /\ PassedChecks(call[t]) => call[t].started = 1

\* C8 as amended: a call that passes validation and the configuration check issues at
\* most one start_execution request, and exactly one once its Step Functions client
\* has been created (none when creating the client raises); the call ends in the same
\* step, so it neither polls nor retries.
C8_AtMostOneRequestPerCall ==
    /\ Len(executions) <= ncalls
    /\ \A t \in Tasks :
         call[t].op = "start" =>
            /\ StartCallShape(call[t])
            /\ PassedChecks(call[t]) => (call[t].started = 1 <=> call[t].clients = 1)

\* One call started an execution and returned the success text; another passed the
\* checks but could not create its client.
C8_OneStartedOneWithoutClient ==
    /\ call["t1"].op = "start" /\ StartSucceeded(call["t1"]) /\ call["t1"].started = 1
    /\ call["t2"].op = "start" /\ PassedChecks(call["t2"]) /\ call["t2"].clients = 0
    /\ Len(executions) = 1

\* C9: a response that parses as an envelope (some line is a JSON object) but exposes
\* no text at result.artifacts[0].parts[0].text yields the 'No response received'
\* message.
C9_PartialResponseIsNoResponse ==
    \A t \in Tasks :
        /\ Done(t) /\ call[t].op \in A2AOps /\ call[t].response.kind = "body"
        /\ Candidates(call[t].response.raw) # <<>>
        /\ \A i \in 1..Len(Candidates(call[t].response.raw)) :
               ArtifactText(Candidates(call[t].response.raw)[i]) = None
        => call[t].result = no_response_text(call[t].op, AGENT_NAME)

\* The text a line of ResponseLines exposes as a string at
\* result.artifacts[0].parts[0].text, None for the lines that expose none.
ExposedText(line) ==
    CASE line.name = "text-X" -> <<"X">>
      [] line.name = "text-Y" -> <<"Y">>
      [] line.name = "text-empty" -> EMPTY
      [] OTHER -> None

\* C10: when some line exposes a text, the extraction returns the text of the last
\* such line in input order, whatever the other lines are.
C10_LastExposingLineWins ==
    extracted # NotExtracted =>
        LET exposing == {i \in 1..Len(jsonrpc_text) : ExposedText(jsonrpc_text[i]) # None}
        IN  exposing # {} =>
               \E last \in exposing :
                   /\ \A i \in exposing : i <= last
                   /\ extracted = PartText(ExposedText(jsonrpc_text[last]))

\* Three lines of which only the second is valid JSON, exposing "X": the result is "X".
C10_SecondOfThreeLines ==
    /\ jsonrpc_text = <<L_garbage, L_text_X, L_garbage>>
    /\ extracted = PartText(<<"X">>)
\* C11: when no line exposes a string at result.artifacts[0].parts[0].text (no line
\* parses, all lines are blank, or the lines that parse lack the path), the
\* extraction returns the raw text it was given, every line of it, unchanged.
C11_IdentityFallback ==
    extracted # NotExtracted =>
        ((\A i \in 1..Len(jsonrpc_text) : ExposedText(jsonrpc_text[i]) = None)
            => extracted = RawText(jsonrpc_text))

\* A blank line, a line that is not JSON and an error object: returned as given.
C11_NoLineExposesText ==
    /\ jsonrpc_text = <<L_blank, L_garbage, L_error>>
    /\ extracted = RawText(<<L_blank, L_garbage, L_error>>)
\* C12: a call of one of the three A2A capabilities issues at most one
\* invoke_agent_runtime, whatever that invocation comes to: its envelope is in the
\* log of invocations at most once, and exactly once when the call ended on the
\* outcome of its invocation.
C12_AtMostOneInvocationPerCall ==
    /\ Len(invocations) <= ncalls
    /\ \A t \in Tasks :
         call[t].op \in A2AOps =>
            /\ call[t].sent <= 1
            /\ call[t].envelope # <<>> =>
                  Cardinality({i \in 1..Len(invocations) :
                                  invocations[i].payload = call[t].envelope}) = call[t].sent
            /\ call[t].pc = "inflight" => call[t].sent = 1
            /\ Done(t) /\ call[t].response.kind # "none" => call[t].sent = 1

\* One call ended on a failed invocation and one on an empty response; two
\* invocations were issued in all.
C12_FailedAndEmptyNotRetried ==
    /\ Done("t1") /\ call["t1"].response = TransportOutcomes[3]
    /\ Done("t2") /\ call["t2"].response = TransportOutcomes[4]
    /\ call["t2"].result = no_response_text(call["t2"].op, AGENT_NAME)
    /\ Len(invocations) = 2

TransportFailures == {"invoke-raises", "body-missing", "read-raises"}
\* the literals the three `except Exception` blocks start their text with
ErrorHeads == {"Error contacting ", "Error registering order via ",
               "Error processing approved order via "}

C14_NoCallOrderingEnforced ==
    [][\A t \in Tasks :
          /\ StartStep(t) =>
                /\ call'[t].result # <<>>
                /\ Head(call'[t].result).s \in StartCheckTexts
                      <=> \/ BlankArg(call'[t].arg)
                          \/ ~Configured(env["APPROVAL_STATE_MACHINE_ARN"])
                          \/ ~Configured(env["APPROVAL_APPROVER_EMAIL"])
                /\ call'[t].started = 1 => executions'[Len(executions')].input.orderId = call'[t].arg
          /\ A2AStep(t) /\ call'[t].op = "process" =>
                /\ call'[t].pc = "invoking"
                      <=> ~BlankArg(call'[t].arg) /\ bridge'._initialized
                /\ call'[t].pc = "invoking" =>
                      call'[t].envelope.params.message.parts[1].text
                          = process_query_text(call'[t].arg)]_vars

\* The only two calls made are a process_approved_order and a start_approval_workflow
\* for the same id: no registration returned that id and nothing approved it, yet
\* the finalize request is in flight and the execution was started.
C14_OutOfOrderCallsProceed ==
    /\ ncalls = 2
    /\ call["t1"].op = "process" /\ call["t1"].arg = P1 /\ call["t1"].pc = "inflight"
    /\ Len(invocations) = 1
    /\ invocations[1].payload.params.message.parts[1].text = process_query_text(P1)
    /\ call["t2"].op = "start" /\ call["t2"].arg = P1 /\ call["t2"].started = 1
    /\ Len(executions) = 1 /\ executions[1].input.orderId = P1
\* C15: once the cancellation of a call has been delivered, no invocation of that
\* call is running or still to be issued.
C15_NoOrphanedInvocation ==
    \A t \in Tasks : call[t].outcome = "cancelled" => call[t].pc = "done"
RequestId(e) == e.id
MessageId(e) == e.params.message.messageId
\* the envelopes built so far: those sent and those of the calls under way
Envelopes ==
    {invocations[i].payload : i \in 1..Len(invocations)}
        \cup {call[t].envelope : t \in {u \in Tasks : call[u].op \in A2AOps /\ call[u].envelope # <<>>}}

\* C16: every envelope carries the id 'req-' + uuid4().hex and the message id
\* 'msg-' + uuid4().hex, and two different envelopes share neither; the envelopes
\* sent are pairwise different.
C16_FreshRequestAndMessageIds ==
    /\ \A e \in Envelopes :
          /\ Len(RequestId(e)) = 2 /\ RequestId(e)[1] = "req-"
          /\ Len(MessageId(e)) = 2 /\ MessageId(e)[1] = "msg-"
    /\ \A e, f \in Envelopes :
          e # f => RequestId(e) # RequestId(f) /\ MessageId(e) # MessageId(f)
    /\ \A i, j \in 1..Len(invocations) :
          i # j => /\ RequestId(invocations[i].payload) # RequestId(invocations[j].payload)
                   /\ MessageId(invocations[i].payload) # MessageId(invocations[j].payload)

\* One task sent two envelopes with equal text, one call after the other.
C16_SameRequestSentTwice ==
    /\ Len(invocations) = 2
    /\ invocations[1].task = invocations[2].task
    /\ invocations[1].payload.params.message.parts = invocations[2].payload.params.message.parts
    /\ RequestId(invocations[1].payload) # RequestId(invocations[2].payload)
\* the fixed part of an envelope: version, method, role, one part of kind text
FixedShape(e) ==
    /\ e.jsonrpc = "2.0"
    /\ e.method = "message/send"
    /\ e.params.message.role = "user"
    /\ Len(e.params.message.parts) = 1
    /\ e.params.message.parts[1].kind = "text"
    /\ DOMAIN e.params.message.parts[1] = {"kind", "text"}

\* C17: every envelope of the three capabilities has the fixed shape; a call of
\* list_waiting_receipt_orders_by_sku with a sku that is non-empty after trim, once
\* past initialisation, builds an envelope whose one text holds the sku as passed,
\* untrimmed, and sends that envelope exactly once.
C17_EnvelopeShapeAndSku ==
    /\ \A i \in 1..Len(invocations) : FixedShape(invocations[i].payload)
    /\ \A t \in Tasks :
         call[t].op \in A2AOps /\ call[t].outcome # "raised" /\ ~BlankArg(call[t].arg) =>
            /\ call[t].envelope # <<>>
            /\ FixedShape(call[t].envelope)
            /\ call[t].op = "list" =>
                  /\ Mentions(call[t].envelope.params.message.parts[1].text, call[t].arg)
                  /\ call[t].pc \in {"inflight", "done"} =>
                        Cardinality({i \in 1..Len(invocations) :
                                        invocations[i].payload = call[t].envelope}) = 1

\* A finished call for a sku with surrounding whitespace sent it as passed, while a
\* create_order_registration call has its envelope in flight.
C17_SpacedSkuSentAsPassed ==
    /\ Done("t1") /\ call["t1"].op = "list" /\ call["t1"].arg = P1_SPACED
    /\ call["t2"].op = "create" /\ call["t2"].pc = "inflight"
    /\ Len(invocations) = 2
    /\ invocations[1].payload.params.message.parts[1].text = list_query_text(P1_SPACED)
endswith(s, p) == Len(s) >= Len(p) /\ SubSeq(s, Len(s) - Len(p) + 1, Len(s)) = p

\* C18: normalising a normalised endpoint gives it back, for every endpoint string.
C18_NormalizationIdempotent ==
    resolution.done =>
        /\ _normalize_agentcore_a2a_base_url(resolution.normalized) = resolution.normalized
        /\ endswith(resolution.normalized, INVOCATIONS)

\* An endpoint with surrounding whitespace, two occurrences of /invocations and a
\* query string that has a third: its normal form is h/runtimes/a%3Ab/invocations.
C18_MessyEndpointNormalized ==
    /\ endpoint = RuntimeUrl(<<" ">>, <<"h">>, ENCODED_ID, INVOCATIONS \o INVOCATIONS,
                             <<"?", "q", "=">> \o INVOCATIONS, <<" ">>)
    /\ resolution.done
    /\ resolution.normalized = <<"h">> \o RUNTIMES_MARKER \o ENCODED_ID \o INVOCATIONS
\* the endpoint is <base>/runtimes/<id>/invocations?<query> with a non-empty id and
\* query, for a base of `bases`
IsRuntimeUrl(u, bases, base, id, query) ==
    /\ base \in bases /\ id \in FormIds \ {EMPTY} /\ query \in FormQueries \ {EMPTY}
    /\ u = RuntimeUrl(EMPTY, base, id, INVOCATIONS, query, EMPTY)

\* what C19 says of the normal form and of the two resolutions of such an endpoint
RuntimeUrlResolved(id) ==
    /\ ~contains(resolution.normalized, <<"?">>)
    /\ endswith(resolution.normalized, INVOCATIONS)
    /\ resolution.resolved = unquote(id)
    /\ resolution.resolved_normalized = unquote(id)

Bound(b) == b._runtime_arn # None /\ b._agentcore_client # None

\* C20: in every state, a set flag means the identifier and the handle are
\* non-null; every step that issues an invocation starts in such a state and uses
\* that identifier and that handle; and from such a state no step changes the flag,
\* the identifier or the handle.
C20_InitializedStateIsStable ==
    /\ [](bridge._initialized => Bound(bridge))
    /\ [][/\ Len(invocations') > Len(invocations) =>
                /\ bridge._initialized /\ Bound(bridge)
                /\ invocations'[Len(invocations')].agentRuntimeArn = bridge._runtime_arn
                /\ invocations'[Len(invocations')].client = bridge._agentcore_client
          /\ bridge._initialized =>
                /\ bridge'._initialized
                /\ bridge'._runtime_arn = bridge._runtime_arn
                /\ bridge'._agentcore_client = bridge._agentcore_client]_vars

\* Two invocations were issued, one before and one after a first answer, while the
\* override names another identifier: both went to the bound identifier through the
\* one handle.
C20_BothInvocationsUseBoundState ==
    /\ bridge._initialized
    /\ env["ORDER_AGENT_RUNTIME_ARN"] = OVERRIDE_ARN /\ bridge._runtime_arn # OVERRIDE_ARN
    /\ Done("t1") /\ call["t1"].response.kind = "body" /\ call["t2"].pc = "inflight"
    /\ Len(invocations) = 2
    /\ \A i \in 1..2 : /\ invocations[i].agentRuntimeArn = bridge._runtime_arn
                       /\ invocations[i].client = bridge._agentcore_client
\* C21: when the configured endpoint starts with the identifier prefix and the
\* override was not what the instance was bound to, the bound identifier, and the
\* identifier of every invocation, is the configured endpoint itself.
C21_ArnEndpointBoundUnchanged ==
    startswith(endpoint, ARN_PREFIX) =>
        /\ bridge._runtime_arn \in {None, OVERRIDE_ARN, endpoint}
        /\ \A i \in 1..Len(invocations) :
              invocations[i].agentRuntimeArn \in {OVERRIDE_ARN, endpoint}
\* The checks C22 names, stated of the event itself.
JsonObjectBody(ev) == loads_body(ev).exc = "" /\ IsDict(loads_body(ev).value)
FieldsPresent(ev) ==
    /\ Truthy(Get(loads_body(ev).value, "fileName"))
    /\ Truthy(Get(loads_body(ev).value, "fileContent"))
SpreadsheetName(name) ==
    /\ IsStr(name)
    /\ \/ endswith(lower(name.v), <<".", "x", "l", "s", "x">>)
       \/ endswith(lower(name.v), <<".", "x", "l", "s">>)
\* base64 as RFC 4648 defines it: characters of the alphabet only, in groups of
\* four, the last group padded with "=" to four
ValidBase64(content) ==
    /\ IsStr(content)
    /\ B64Counts(content).foreign = 0
    /\ <<B64Counts(content).alphabet % 4, B64Counts(content).pad>> \in {<<0, 0>>, <<2, 2>>, <<3, 1>>}
DecodedSize(content) ==
    3 * (B64Counts(content).alphabet \div 4)
        + (IF B64Counts(content).alphabet % 4 = 0 THEN 0 ELSE (B64Counts(content).alphabet % 4) - 1)
EveryCheckPassed(ev, bucket) ==
    /\ ~Falsy(bucket)
    /\ JsonObjectBody(ev)
    /\ FieldsPresent(ev)
    /\ SpreadsheetName(Get(loads_body(ev).value, "fileName"))
    /\ ValidBase64(Get(loads_body(ev).value, "fileContent"))
    /\ DecodedSize(Get(loads_body(ev).value, "fileContent")) <= MAX_FILE_SIZE
\* temp/<uuid>/<uuid><extension>, the uuids drawn by this invocation
GeneratedKey(key, before, after) ==
    \E u1 \in (before + 1)..after, u2 \in (before + 1)..after, ext \in ALLOWED_EXTENSIONS :
        /\ u1 # u2
        /\ key = <<"temp/">> \o str_uuid(u2) \o <<"/">> \o str_uuid(u1) \o ext

\* C22: an invocation of the presigned-URL handler returns a response with status
\* 200, 400 or 500 and never raises; it stores an object only when the bucket is
\* configured, the body is a JSON object with fileName and fileContent, the name
\* ends in .xlsx or .xls, the content is valid base64 and at most 10MB; a 400
\* response and the OPTIONS response leave the bucket as it was; the key of a
\* stored object is made of generated UUIDs and the extension only.
C22_HandlerStep ==
    /\ ~response'.raised
    /\ response'.statusCode \in {200, 400, 500}
    /\ s3_objects' # s3_objects =>
          /\ EveryCheckPassed(event', TEMP_BUCKET)
          /\ Len(s3_objects') = Len(s3_objects) + 1
          /\ SubSeq(s3_objects', 1, Len(s3_objects)) = s3_objects
          /\ GeneratedKey(s3_objects'[Len(s3_objects')].Key, uuids, uuids')
    /\ (response'.statusCode = 400 \/ event'.httpMethod = "OPTIONS") => s3_objects' = s3_objects
C22_WriteOnlyAfterEveryCheck == [][C22_HandlerStep]_vars

====
